---------------------------- MODULE Spec2Model ----------------------------
(***************************************************************************)
(* Verification model of the seizure-detection host software:              *)
(*   run_tests.py       chunk encoder, event decoder, event aggregation,   *)
(*                      and the device run (registers, pipe in, pipe out)  *)
(*   diagnose_channels.py  chunk decoder used to verify the encoding       *)
(*   synthetic.py       per-channel synthesizer and multi-channel generator*)
(*   ok.py              FrontPanel wrapper (ReadFromPipeOut, SetWireIn)    *)
(*                                                                         *)
(* Python integers are unbounded.  Values that stay below 2^31 are TLA+    *)
(* integers; 32-bit and 64-bit register and event words are bit vectors    *)
(* (sequences of 0/1, least significant bit first).                        *)
(***************************************************************************)
EXTENDS Integers, Sequences, FiniteSets, TLC

VARIABLES
    \* ---- generate_synthetic_data_chunks / check_channel_data_ordering
    cpc,                 \* "encode" | "verify"
    samples_per_channel, \* argument of generate_synthetic_data_chunks
    num_chunks,          \* argument of generate_synthetic_data_chunks
    all_data_16,         \* the flat uint16 sample buffer
    chunks,              \* the list of encoded chunks (each a byte sequence)
    extracted            \* last (chunk, word, ch, code) decoded by the diagnostic

codecVars == <<cpc, samples_per_channel, num_chunks, all_data_16, chunks, extracted>>

VARIABLES
    \* ---- main (event decode and per-channel files), parse_seizure_events
    epc,                 \* "split" | "decode" | "write" | "plot" | "parse" | "done"
    out,                 \* bytes returned by ReadFromPipeOut
    words,               \* 32-bit words of out (bit vectors)
    wi,                  \* number of words the decode loop has handled
    events_by_channel,   \* channel -> list of (event_code, event_str, timestamp25, w)
    counts,              \* [starts, ends, idle] counters of main
    files,               \* channel -> lines of outputs/<log>_ch<ch>.txt, or NoFile
    pch,                 \* channel whose file plot_raw_data parses next / is parsing
    lines,               \* parse_seizure_events: lines read from the file
    li,                  \* parse_seizure_events: number of lines handled
    start_time,          \* parse_seizure_events: open marker (None or a timestamp)
    seizures,            \* parse_seizure_events: interval list being built
    intervals,           \* channel -> interval list returned by parse_seizure_events
    revision             \* device: output word layout of the bitstream, "A" or "B"

eventVars == <<epc, out, words, wi, events_by_channel, counts, files,
               pch, lines, li, start_time, seizures, intervals, revision>>

VARIABLES
    \* ---- main (device run): okCFrontPanel calls, lines 241-363
    rpc,                 \* position in main
    args,                \* parsed command line
    wire_staged,         \* device: WireIn values set and not yet committed
    wire_dev,            \* device: WireIn values committed by UpdateWireIns
    dev_log,             \* device: the calls it received, in order
    wstep,               \* number of register calls of lines 264-275 made
    ts,                  \* the 64-bit timestamp of line 269 (empty before)
    chunk_idx,           \* index of the next chunk of the send loop
    len_out,          \* len(out), or None before the read
    summary,             \* the summary line main logged, or "" before
    exit_code            \* None while running, 1 after sys.exit(1), 0 at the end

runVars == <<rpc, args, wire_staged, wire_dev, dev_log, wstep, ts, chunk_idx,
             len_out, summary, exit_code>>

VARIABLES
    \* ---- synthetic.py: generate_data_intan16 and NeuralSynthSource
    gpc,                 \* "seed" | "construct" | "sample" | "return" | "done"
    gargs,               \* seed and the arguments of generate_data_intan16
    rng,                 \* state of the global generator of module random
    clock,               \* time.time() in milliseconds
    sources,             \* list of NeuralSynthSource objects
    channel,             \* loop variable of lines 208 and 212
    sample,              \* loop variable of line 213
    data16,              \* output buffer of the running call
    results              \* buffers returned by the calls made so far

genVars == <<gpc, gargs, rng, clock, sources, channel, sample, data16, results>>

VARIABLES
    \* ---- synthetic.py: one NeuralSynthSource object and its callers
    source,              \* the object
    calls,               \* number of next_sample and reset calls made on it
    voltage              \* value returned by the last next_sample (0 before)

synthVars == <<source, calls, voltage>>

VARIABLES
    \* ---- pure helpers: ensure_multiple_of_16, the quantizer, compute_neo
    fpc,                 \* which helper is applied, and whether it returned
    fin,                 \* its argument
    fout                 \* its result

pureVars == <<fpc, fin, fout>>

vars == <<codecVars, eventVars, runVars, genVars, synthVars, pureVars>>

-----------------------------------------------------------------------------
(* Program constants *)
NUM_CHANNELS == 32
SAMPLES_PER_CHUNK == 128
SAMPLE_SIZE_BYTES == 4
CHUNK_BYTES == NUM_CHANNELS * SAMPLES_PER_CHUNK * SAMPLE_SIZE_BYTES
MID_SCALE == 32768
PIPE_IN_ADDR == 128
PIPE_OUT_ADDR == 160
WIREIN_CTRL == 0
WIREIN_TS_LO == 1
WIREIN_TS_HI == 2
WIREIN_THRESHOLD == 3
WIREIN_WINDOW_TIMEOUT == 4
WIREIN_TRANSITION_COUNT == 5
MAX_EVENTS == 10000
EVENT_BUFFER_SIZE == MAX_EVENTS * SAMPLE_SIZE_BYTES
NoError == 0
NEO_THRESHOLD == 120000

(* Bounds of the model *)
MaxChunks == 2
MaxSlack == 1
MaxWords == 3
MaxGenChannels == 2
MaxGenSamples == 2
MaxClock == 2
MaxCalls == 8
MaxPadLen == 33
MaxNeoLen == 3

-----------------------------------------------------------------------------
(* Integer bit operations of Python, for values below 2^31 *)
Shl(a, k) == a * (2 ^ k)
Shr(a, k) == a \div (2 ^ k)

RECURSIVE BitOr(_, _)
BitOr(a, b) ==
    IF a = 0 THEN b
    ELSE IF b = 0 THEN a
    ELSE (IF a % 2 = 1 \/ b % 2 = 1 THEN 1 ELSE 0) + 2 * BitOr(a \div 2, b \div 2)

RECURSIVE BitAnd(_, _)
BitAnd(a, b) ==
    IF a = 0 \/ b = 0 THEN 0
    ELSE (IF a % 2 = 1 /\ b % 2 = 1 THEN 1 ELSE 0) + 2 * BitAnd(a \div 2, b \div 2)

\* mutant of to_bytes: byteorder='big'
to_bytes_big(w) == << (w \div 16777216) % 256, (w \div 65536) % 256, (w \div 256) % 256, w % 256 >>

(* int.to_bytes(4, byteorder='little') and int.from_bytes(.., 'little') *)
to_bytes(w) == << w % 256, (w \div 256) % 256, (w \div 65536) % 256, (w \div 16777216) % 256 >>

RECURSIVE from_bytes(_)
from_bytes(b) == IF b = << >> THEN 0 ELSE b[1] + 256 * from_bytes(Tail(b))

-----------------------------------------------------------------------------
(* generate_synthetic_data_chunks, run_tests.py lines 53-64 *)

\* mutant of Code16At: the buffer indexed time-major
Code16At_timemajor(data, spc, chunk_id, ch, sample_in_chunk) ==
    LET sample_idx == chunk_id * SAMPLES_PER_CHUNK + sample_in_chunk
        idx == sample_idx * NUM_CHANNELS + ch
    IN  IF idx < Len(data) THEN data[idx + 1] ELSE MID_SCALE

\* line 58-60: the sample placed at (chunk_id, ch, sample_in_chunk)
Code16At(data, spc, chunk_id, ch, sample_in_chunk) ==
    LET sample_idx == chunk_id * SAMPLES_PER_CHUNK + sample_in_chunk
        idx == ch * spc + sample_idx
    IN  IF idx < Len(data) THEN data[idx + 1] ELSE MID_SCALE

\* line 61
\* a variant that places the channel at bit 22
Word32_wide(ch, code16) == BitOr(Shl(ch, 22), code16)

Word32(ch, code16) == BitOr(Shl(ch, 16), code16)

\* the inner loop over sample_in_chunk (lines 57-62), iterations lo..hi in
\* order; the range is split in halves to keep the evaluation shallow
RECURSIVE ChannelBytes(_, _, _, _, _, _)
ChannelBytes(data, spc, chunk_id, ch, lo, hi) ==
    IF lo > hi THEN << >>
    ELSE IF lo = hi THEN to_bytes(Word32(ch, Code16At(data, spc, chunk_id, ch, lo)))
    ELSE LET mid == (lo + hi) \div 2
         IN  ChannelBytes(data, spc, chunk_id, ch, lo, mid)
             \o ChannelBytes(data, spc, chunk_id, ch, mid + 1, hi)

\* the loop over ch (lines 56-62), from channel ch on
RECURSIVE ChunkBytes(_, _, _, _)
ChunkBytes(data, spc, chunk_id, ch) ==
    IF ch >= NUM_CHANNELS THEN << >>
    ELSE ChannelBytes(data, spc, chunk_id, ch, 0, SAMPLES_PER_CHUNK - 1) \o ChunkBytes(data, spc, chunk_id, ch + 1)

-----------------------------------------------------------------------------
(* check_channel_data_ordering, diagnose_channels.py lines 49-54, 77-81 *)
WordBytesAt(chunk, word_idx) ==
    SubSeq(chunk, word_idx * 4 + 1, (word_idx + 1) * 4)

ExtractWord(chunk, word_idx) ==
    LET word32 == from_bytes(WordBytesAt(chunk, word_idx))
    IN  [ch |-> BitAnd(Shr(word32, 16), 63), code |-> BitAnd(word32, 65535)]

\* word positions the diagnostic looks at (lines 49 and 67-74), and the last word
VerifyWords == {0, 127, 128, 255, 256, 383, 384}
                 \cup {ch * SAMPLES_PER_CHUNK : ch \in {0, 11, 12, 20, 31}}
                 \cup {NUM_CHANNELS * SAMPLES_PER_CHUNK - 1}

-----------------------------------------------------------------------------
(* 32-bit words of the output pipe: bit vectors, least significant bit first *)
None == -1

BvFromBytes(b) ==
    [i \in 1 .. (8 * Len(b)) |-> (b[((i - 1) \div 8) + 1] \div (2 ^ ((i - 1) % 8))) % 2]

\* a non-negative integer below 2^31 as a bit vector
BvOfInt(n) == [i \in 1 .. 31 |-> (n \div (2 ^ (i - 1))) % 2]

\* v >> k
BvShr(v, k) == IF k >= Len(v) THEN << >> ELSE SubSeq(v, k + 1, Len(v))

\* v & m
BvAnd(v, m) ==
    [i \in 1 .. (IF Len(v) < Len(m) THEN Len(v) ELSE Len(m)) |-> v[i] * m[i]]

\* the integer a bit vector stands for (used where it is below 2^31)
RECURSIVE BvVal(_)
BvVal(v) == IF v = << >> THEN 0 ELSE v[1] + 2 * BvVal(Tail(v))

-----------------------------------------------------------------------------
(* main, run_tests.py lines 297-317: split the buffer, decode each word *)

\* a variant without the filter of line 299: the trailing bytes make a word
SplitWords_keep(buf) ==
    LET bytes_read == Len(buf)
        range == [k \in 1 .. ((bytes_read + 3) \div 4) |-> 4 * (k - 1)]
    IN  [k \in 1 .. Len(range) |->
            BvFromBytes(SubSeq(buf, range[k] + 1,
                               IF range[k] + 4 <= bytes_read THEN range[k] + 4 ELSE bytes_read))]

\* lines 298-299
SplitWords(buf) ==
    LET bytes_read == Len(buf)
        range == [k \in 1 .. ((bytes_read + 3) \div 4) |-> 4 * (k - 1)]
        kept == SelectSeq(range, LAMBDA i : i + 4 <= bytes_read)
    IN  [k \in 1 .. Len(kept) |-> BvFromBytes(SubSeq(buf, kept[k] + 1, kept[k] + 4))]

STR_START == <<"S", "T", "A", "R", "T">>
STR_END == <<"E", "N", "D", " ", " ">>
STR_IDLE == <<"I", "D", "L", "E", " ">>

\* mutant of ChannelId: the Revision A position of the channel field
ChannelId_revA(w) == BvVal(BvAnd(BvShr(w, 26), BvOfInt(31)))

\* a variant that keeps only four bits of the channel field
ChannelId_nibble(w) == BvVal(BvAnd(BvShr(w, 25), BvOfInt(15)))

\* lines 306-308
EventCode(w) == BvVal(BvAnd(BvShr(w, 30), BvOfInt(3)))
ChannelId(w) == BvVal(BvAnd(BvShr(w, 25), BvOfInt(31)))
Timestamp25(w) == BvVal(BvAnd(w, BvOfInt(33554431)))

\* lines 310-315
EventStr(event_code) ==
    IF event_code = 1 THEN STR_START
    ELSE IF event_code = 2 THEN STR_END
    ELSE STR_IDLE

\* the tuple appended at line 317
DecodeEvent(w) ==
    [code |-> EventCode(w), str |-> EventStr(EventCode(w)), ts |-> Timestamp25(w), w |-> w]

-----------------------------------------------------------------------------
(* main, lines 328-345: the per-channel text file *)
DigitChars == <<"0", "1", "2", "3", "4", "5", "6", "7", "8", "9">>
HexChars == <<"0", "1", "2", "3", "4", "5", "6", "7", "8", "9", "A", "B", "C", "D", "E", "F">>

\* format(n, "d")
RECURSIVE Dec(_)
Dec(n) == IF n < 10 THEN <<DigitChars[n + 1]>> ELSE Dec(n \div 10) \o <<DigitChars[(n % 10) + 1]>>

\* format(n, "0<width>d")
ZeroPad(n, width) ==
    LET d == Dec(n)
    IN  IF Len(d) >= width THEN d ELSE [i \in 1 .. (width - Len(d)) |-> "0"] \o d

\* format(w, "08X") of a 32-bit word
Hex8(w) ==
    [k \in 1 .. 8 |-> HexChars[BvVal(SubSeq(w, 4 * (8 - k) + 1, 4 * (8 - k) + 4)) + 1]]

Rule(c) == [i \in 1 .. 70 |-> c] \o <<"\n">>

\* line 341
EventLine(e) ==
    ZeroPad(e.code, 2) \o <<" ", "(">> \o e.str \o <<")", " ", "|", " ">>
        \o ZeroPad(e.ts, 19) \o <<" ", "|", " ", "0", "x">> \o Hex8(e.w) \o <<"\n">>

\* lines 331, 336-344
ChannelFile(ch, evs) ==
    LET seizure_count == Len(SelectSeq(evs, LAMBDA e : e.code = 1))
    IN  << <<"C", "h", "a", "n", "n", "e", "l", " ">> \o Dec(ch) \o <<" ", "-", " ", "S", "e", "i", "z", "u", "r", "e", " ", "D", "e", "t", "e", "c", "t", "i", "o", "n", " ", "E", "v", "e", "n", "t", "s", "\n">>,
           Rule("="),
           <<"E", "v", "e", "n", "t", "C", "o", "d", "e", " ", "|", " ", "T", "i", "m", "e", "s", "t", "a", "m", "p", " ", "|", " ", "R", "a", "w", "W", "o", "r", "d", "H", "e", "x", "\n">>,
           Rule("-") >>
        \o [k \in 1 .. Len(evs) |-> EventLine(evs[k])]
        \o << Rule("="),
              <<"T", "o", "t", "a", "l", " ", "s", "e", "i", "z", "u", "r", "e", "s", ":", " ">> \o Dec(seizure_count) \o <<"\n">>,
              <<"T", "o", "t", "a", "l", " ", "e", "v", "e", "n", "t", "s", ":", " ">> \o Dec(Len(evs)) \o <<"\n">> >>

-----------------------------------------------------------------------------
(* parse_seizure_events, run_tests.py lines 71-105 *)
PAT_START == <<"0", "1", " ", "(", "S", "T", "A", "R", "T", ")">>
PAT_END == <<"0", "2", " ", "(", "E", "N", "D", " ", " ", ")">>

\* pat in line
Contains(line, pat) ==
    \E i \in 1 .. (Len(line) - Len(pat) + 1) : SubSeq(line, i, i + Len(pat) - 1) = pat

\* line.split(sep)
RECURSIVE Split(_, _)
Split(line, sep) ==
    IF \E i \in 1 .. Len(line) : line[i] = sep
    THEN LET i == CHOOSE i \in 1 .. Len(line) :
                      line[i] = sep /\ \A j \in 1 .. (i - 1) : line[j] # sep
         IN  <<SubSeq(line, 1, i - 1)>> \o Split(SubSeq(line, i + 1, Len(line)), sep)
    ELSE <<line>>

IsSpace(c) == c \in {" ", "\n", "\t", "\r"}

\* text.strip()
Strip(text) ==
    LET keep == {i \in 1 .. Len(text) : ~IsSpace(text[i])}
    IN  IF keep = {} THEN << >>
        ELSE SubSeq(text, CHOOSE i \in keep : \A j \in keep : i <= j,
                          CHOOSE i \in keep : \A j \in keep : j <= i)

\* int(text) succeeds (the files main writes hold unsigned decimal fields)
IsInt(text) ==
    /\ text # << >>
    /\ \A i \in 1 .. Len(text) : \E d \in 1 .. 10 : DigitChars[d] = text[i]

DigitVal(c) == (CHOOSE d \in 1 .. 10 : DigitChars[d] = c) - 1

RECURSIVE IntOf(_)
IntOf(text) ==
    IF text = << >> THEN 0
    ELSE 10 * IntOf(SubSeq(text, 1, Len(text) - 1)) + DigitVal(text[Len(text)])

\* lines 82-89: a line holding '01 (START)'
OnStartLine(st, line) ==
    LET parts == Split(line, "|")
    IN  IF Len(parts) >= 2 /\ IsInt(Strip(parts[2]))
        THEN [st EXCEPT !.start_time = IntOf(Strip(parts[2]))]
        ELSE st

\* a variant that appends the pair the other way round
OnEndLine_swapped(st, line) ==
    LET parts == Split(line, "|")
    IN  IF Len(parts) >= 2 /\ IsInt(Strip(parts[2]))
        THEN [start_time |-> None,
              seizures |-> Append(st.seizures, <<IntOf(Strip(parts[2])), st.start_time>>)]
        ELSE st

\* lines 90-99: a line holding '02 (END  )' while start_time is not None
OnEndLine(st, line) ==
    LET parts == Split(line, "|")
    IN  IF Len(parts) >= 2 /\ IsInt(Strip(parts[2]))
        THEN [start_time |-> None,
              seizures |-> Append(st.seizures, <<st.start_time, IntOf(Strip(parts[2]))>>)]
        ELSE st

\* mutant of ParseStep: an end line is handled without an open interval too
ParseStep_noguard(st, line) ==
    IF Contains(line, PAT_START) THEN OnStartLine(st, line)
    ELSE IF Contains(line, PAT_END) THEN OnEndLine(st, line)
    ELSE st

\* one iteration of the loop over lines (lines 81-99)
ParseStep(st, line) ==
    IF Contains(line, PAT_START) THEN OnStartLine(st, line)
    ELSE IF Contains(line, PAT_END) /\ st.start_time # None THEN OnEndLine(st, line)
    ELSE st

\* mutant of ParseResult: the ongoing seizure is not reported
ParseResult_drop(st) == st.seizures

\* lines 101-105
ParseResult(st) ==
    IF st.start_time # None THEN Append(st.seizures, <<st.start_time, None>>)
    ELSE st.seizures

-----------------------------------------------------------------------------
(* Inputs of the event specification: what the device returns on the output
   pipe.  A device word is given by its fields (Revision B layout). *)
Channels == 0 .. (NUM_CHANNELS - 1)
ChanA == 0
ChanB == 31
MAX_TS == 33554431

DeviceWord(code, ch, t25) ==
    << t25 % 256, (t25 \div 256) % 256, (t25 \div 65536) % 256,
       (t25 \div 16777216) + 2 * ch + 64 * code >>

DeviceWords ==
    { DeviceWord(1, ChanA, 0), DeviceWord(1, ChanA, 1444), DeviceWord(2, ChanA, 108),
      DeviceWord(2, ChanA, MAX_TS), DeviceWord(1, ChanB, 108),
      DeviceWord(0, ChanA, 5), DeviceWord(3, ChanB, 9) }

ByteSamples == {0, 1, 64, 127, 128, 255}
TrailingBytes == { << >>, <<255, 129, 2>> }

RECURSIVE Concat(_)
Concat(ss) == IF ss = << >> THEN << >> ELSE ss[1] \o Concat(Tail(ss))

DeviceBuffers ==
    { Concat(ws) \o t : ws \in UNION { [1 .. n -> DeviceWords] : n \in 0 .. MaxWords },
                        t \in TrailingBytes }
    \cup [1 .. 4 -> ByteSamples]

\* a word as a Revision A device sends it: [31] event bit, [30:26] channel,
\* [25:0] timestamp
DeviceWordA(event_bit, ch, t26) ==
    << t26 % 256, (t26 \div 256) % 256, (t26 \div 65536) % 256,
       (t26 \div 16777216) + 4 * ch + 128 * event_bit >>

DeviceBuffersA ==
    { DeviceWordA(1, ChanA, 5),
      DeviceWordA(1, 1, 100) \o DeviceWordA(0, 1, 33554432 + 200) }

\* buffers that end one or two bytes into a word
PartialBuffers ==
    { <<7>>, <<0, 200>>, DeviceWord(1, ChanA, 0) \o <<7>>,
      DeviceWord(1, ChanB, 108) \o DeviceWord(2, ChanB, 1444) \o <<0, 200>> }

EventIdle ==
    /\ epc = "idle"
    /\ out = << >>
    /\ words = << >>
    /\ wi = 0
    /\ events_by_channel = [ch \in Channels |-> << >>]
    /\ counts = [starts |-> 0, ends |-> 0, idle |-> 0]
    /\ files = << >>
    /\ pch = 0
    /\ lines = << >>
    /\ li = 0
    /\ start_time = None
    /\ seizures = << >>
    /\ intervals = << >>
    /\ revision = "B"

RunIdle ==
    /\ rpc = "idle"
    /\ args = << >>
    /\ wire_staged = << >>
    /\ wire_dev = << >>
    /\ dev_log = << >>
    /\ wstep = 0
    /\ ts = << >>
    /\ chunk_idx = 0
    /\ len_out = None
    /\ summary = ""
    /\ exit_code = None

GenIdle ==
    /\ gpc = "idle"
    /\ gargs = << >>
    /\ rng = 0
    /\ clock = 0
    /\ sources = << >>
    /\ channel = 0
    /\ sample = 0
    /\ data16 = << >>
    /\ results = << >>

SynthIdle ==
    /\ source = << >>
    /\ calls = 0
    /\ voltage = 0

PureIdle ==
    /\ fpc = "idle"
    /\ fin = << >>
    /\ fout = << >>

CodecIdle ==
    /\ cpc = "idle"
    /\ samples_per_channel = 0
    /\ num_chunks = 0
    /\ all_data_16 = << >>
    /\ chunks = << >>
    /\ extracted = [chunk |-> 0, word |-> 0, ch |-> 0, code |-> 0, valid |-> FALSE]

EventInit ==
    /\ SynthIdle
    /\ PureIdle
    /\ GenIdle
    /\ CodecIdle
    /\ RunIdle
    /\ epc = "split"
    /\ \/ revision = "B" /\ out \in DeviceBuffers \cup PartialBuffers
       \/ revision = "A" /\ out \in DeviceBuffersA
    /\ words = << >>
    /\ wi = 0
    /\ events_by_channel = [ch \in Channels |-> << >>]
    /\ counts = [starts |-> 0, ends |-> 0, idle |-> 0]
    /\ files = << >>
    /\ pch = 0
    /\ lines = << >>
    /\ li = 0
    /\ start_time = None
    /\ seizures = << >>
    /\ intervals = << >>

\* lines 294-303
SplitOut ==
    /\ epc = "split"
    /\ words' = SplitWords(out)
    /\ epc' = "decode"
    /\ UNCHANGED <<out, wi, events_by_channel, counts, files, pch, lines, li,
                   start_time, seizures, intervals>>
    /\ UNCHANGED revision
    /\ UNCHANGED <<codecVars, runVars, genVars, synthVars, pureVars>>

\* one iteration of the loop over words (lines 305-317)
DecodeWord ==
    /\ epc = "decode"
    /\ wi < Len(words)
    /\ LET w == words[wi + 1]
           e == DecodeEvent(w)
       IN  /\ events_by_channel' =
                 [events_by_channel EXCEPT ![ChannelId(w)] = Append(@, e)]
           /\ counts' = IF e.code = 1 THEN [counts EXCEPT !.starts = @ + 1]
                        ELSE IF e.code = 2 THEN [counts EXCEPT !.ends = @ + 1]
                        ELSE [counts EXCEPT !.idle = @ + 1]
    /\ wi' = wi + 1
    /\ UNCHANGED <<epc, out, words, files, pch, lines, li, start_time, seizures, intervals>>
    /\ UNCHANGED revision
    /\ UNCHANGED <<codecVars, runVars, genVars, synthVars, pureVars>>

\* the loop over channels writing the per-channel files (lines 328-345);
\* the output directory was emptied at lines 221-226
WriteFiles ==
    /\ epc = "decode"
    /\ wi = Len(words)
    /\ files' = [ch \in {c \in Channels : events_by_channel[c] # << >>} |->
                    ChannelFile(ch, events_by_channel[ch])]
    /\ epc' = "plot"
    /\ pch' = 0
    /\ UNCHANGED <<out, words, wi, events_by_channel, counts, lines, li,
                   start_time, seizures, intervals>>
    /\ UNCHANGED revision
    /\ UNCHANGED <<codecVars, runVars, genVars, synthVars, pureVars>>

\* plot_raw_data calls parse_seizure_events for channel pch (lines 165-166);
\* lines 73-80 of parse_seizure_events
ParseBegin ==
    /\ epc = "plot"
    /\ pch < NUM_CHANNELS
    /\ IF pch \notin DOMAIN files
       THEN /\ intervals' = (pch :> << >>) @@ intervals
            /\ pch' = pch + 1
            /\ UNCHANGED <<epc, lines, li, start_time, seizures>>
       ELSE /\ lines' = files[pch]
            /\ li' = 0
            /\ start_time' = None
            /\ seizures' = << >>
            /\ epc' = "parse"
            /\ UNCHANGED <<pch, intervals>>
    /\ UNCHANGED <<out, words, wi, events_by_channel, counts, files>>
    /\ UNCHANGED revision
    /\ UNCHANGED <<codecVars, runVars, genVars, synthVars, pureVars>>

\* one iteration of the loop over lines (lines 81-99)
ParseLine ==
    /\ epc = "parse"
    /\ li < Len(lines)
    /\ LET st == ParseStep([start_time |-> start_time, seizures |-> seizures], lines[li + 1])
       IN  /\ start_time' = st.start_time
           /\ seizures' = st.seizures
    /\ li' = li + 1
    /\ UNCHANGED <<epc, out, words, wi, events_by_channel, counts, files, pch, lines, intervals>>
    /\ UNCHANGED revision
    /\ UNCHANGED <<codecVars, runVars, genVars, synthVars, pureVars>>

\* lines 101-105, and the return to plot_raw_data
ParseReturn ==
    /\ epc = "parse"
    /\ li = Len(lines)
    /\ intervals' = (pch :> ParseResult([start_time |-> start_time, seizures |-> seizures]))
                        @@ intervals
    /\ pch' = pch + 1
    /\ epc' = "plot"
    /\ lines' = << >>
    /\ li' = 0
    /\ start_time' = None
    /\ seizures' = << >>
    /\ UNCHANGED <<out, words, wi, events_by_channel, counts, files>>
    /\ UNCHANGED revision
    /\ UNCHANGED <<codecVars, runVars, genVars, synthVars, pureVars>>

PlotDone ==
    /\ epc = "plot"
    /\ pch = NUM_CHANNELS
    /\ epc' = "done"
    /\ UNCHANGED <<out, words, wi, events_by_channel, counts, files, pch, lines, li,
                   start_time, seizures, intervals>>
    /\ UNCHANGED revision
    /\ UNCHANGED <<codecVars, runVars, genVars, synthVars, pureVars>>

EventNext == SplitOut \/ DecodeWord \/ WriteFiles \/ ParseBegin \/ ParseLine
                \/ ParseReturn \/ PlotDone

SpecEvent == EventInit /\ [][EventNext]_vars

-----------------------------------------------------------------------------
(* Inputs of the codec specification *)
\* (first sample, step between consecutive samples), modulo 2^16
SamplePatterns == {<<0, 1>>, <<65535, 257>>}
SamplesChoices == {0, 1} \cup ((SAMPLES_PER_CHUNK - MaxSlack) .. (SAMPLES_PER_CHUNK + MaxSlack))

\* a uint16 buffer of NUM_CHANNELS * spc samples
Buffer(spc, base, stride) ==
    [i \in 1 .. (NUM_CHANNELS * spc) |-> (base + stride * (i - 1)) % 65536]

CodecInit ==
    /\ SynthIdle
    /\ PureIdle
    /\ GenIdle
    /\ EventIdle
    /\ RunIdle
    /\ cpc = "encode"
    /\ samples_per_channel \in SamplesChoices
    /\ num_chunks \in 0 .. MaxChunks
    /\ \E p \in SamplePatterns :
          all_data_16 = Buffer(samples_per_channel, p[1], p[2])
    /\ chunks = << >>
    /\ extracted = [chunk |-> 0, word |-> 0, ch |-> 0, code |-> 0, valid |-> FALSE]

\* one iteration of the loop over chunk_id (lines 54-63)
EncodeChunk ==
    /\ cpc = "encode"
    /\ Len(chunks) < num_chunks
    /\ chunks' = Append(chunks, ChunkBytes(all_data_16, samples_per_channel, Len(chunks), 0))
    /\ UNCHANGED <<cpc, samples_per_channel, num_chunks, all_data_16, extracted>>
    /\ UNCHANGED <<eventVars, runVars, genVars, synthVars, pureVars>>

\* line 64: return chunks
ReturnChunks ==
    /\ cpc = "encode"
    /\ Len(chunks) = num_chunks
    /\ cpc' = "verify"
    /\ UNCHANGED <<samples_per_channel, num_chunks, all_data_16, chunks, extracted>>
    /\ UNCHANGED <<eventVars, runVars, genVars, synthVars, pureVars>>

\* the diagnostic decodes one word of one chunk
VerifyWord ==
    /\ cpc = "verify"
    /\ \E c \in 1 .. Len(chunks), w \in VerifyWords :
          /\ w * 4 < Len(chunks[c])
          /\ extracted' = [chunk |-> c - 1, word |-> w,
                           ch |-> ExtractWord(chunks[c], w).ch,
                           code |-> ExtractWord(chunks[c], w).code,
                           valid |-> TRUE]
    /\ UNCHANGED <<cpc, samples_per_channel, num_chunks, all_data_16, chunks>>
    /\ UNCHANGED <<eventVars, runVars, genVars, synthVars, pureVars>>

CodecNext == EncodeChunk \/ ReturnChunks \/ VerifyWord

SpecCodec == CodecInit /\ [][CodecNext]_vars

-----------------------------------------------------------------------------
(* synthetic.py.  Floats are fixed-point integers: time in microseconds,
   voltage in thousandths of a microvolt, sines and exponentials in
   thousandths, phases in thousandths of a cycle, rates in millihertz,
   probabilities in millionths.  The generator of module random is a
   congruential generator over 0 .. RNG_M - 1; a draw x stands for the float
   x / RNG_M in [0, 1). *)
RNG_M == 16
Seed(a) == a % RNG_M                      \* random.seed(a)
Draw(r) == (5 * r + 3) % RNG_M            \* next state, and the value drawn

\* random.uniform(a, b) for the draw x
Uniform(a, b, x) == a + ((b - a) * x) \div RNG_M

\* 1000 * 0.1 * 500^(x / RNG_M): math.exp(random.uniform(log 0.1, log 50)), lines 63-67
LogUniformTable ==
    <<100, 147, 217, 321, 473, 697, 1028, 1516, 2236, 3297, 4862, 7170, 10574,
      15592, 22993, 33907>>
_log_uniform(x) == LogUniformTable[x + 1]

\* 1000 * exp(-2.0 * t) for t = k / 10 ms, k = 0 .. 17
ExpTable ==
    <<1000, 819, 670, 549, 449, 368, 301, 247, 202, 165, 135, 111, 91, 74, 61, 50, 41, 33>>
Exp1000(t_us) == ExpTable[(t_us \div 100) + 1]

\* 1000 * sin(2 pi mc / 1000), Bhaskara's rational approximation
Sin1000(mc) ==
    LET m == mc % 1000
        q == (m % 500) * (500 - (m % 500))
        v == (16000 * q) \div (1250000 - 4 * q)
    IN  IF m < 500 THEN v ELSE 0 - v

\* int(round(n / d)) for d > 0 when no tie occurs
RoundDiv(n, d) == (2 * n + d) \div (2 * d)

\* lines 52-61, for units 0 .. n-1 from generator state r
RECURSIVE DrawUnits(_, _)
DrawUnits(n, r) ==
    IF n = 0
    THEN [spike_amplitude |-> << >>, spike_duration_ms |-> << >>, spike_rate_hz |-> << >>,
          firing |-> << >>, spike_time_ms |-> << >>, rng |-> r]
    ELSE LET u == DrawUnits(n - 1, r)
             x1 == Draw(u.rng)
             x2 == Draw(x1)
             x3 == Draw(x2)
         IN  [spike_amplitude |-> Append(u.spike_amplitude, Uniform(-500000, -200000, x1)),
              spike_duration_ms |-> Append(u.spike_duration_ms, Uniform(300, 1700, x2)),
              spike_rate_hz |-> Append(u.spike_rate_hz, _log_uniform(x3)),
              firing |-> Append(u.firing, FALSE),
              spike_time_ms |-> Append(u.spike_time_ms, 0),
              rng |-> x3]

\* NeuralSynthSource.__init__ (lines 21-61): the object and the generator state
\* it leaves behind
NeuralSynthSource(sample_rate, n_units, seed, enable_seizures, r) ==
    LET r0 == IF seed # None THEN Seed(seed) ELSE r
        u == DrawUnits(n_units, r0)
    IN  [self |-> [sample_rate |-> sample_rate, n_units |-> n_units,
                   t_step_ms |-> 1000000 \div sample_rate, t_ms |-> 0,
                   enable_seizures |-> enable_seizures,
                   seizure_start_time_ms |-> None,
                   spike_amplitude |-> u.spike_amplitude,
                   spike_duration_ms |-> u.spike_duration_ms,
                   spike_rate_hz |-> u.spike_rate_hz,
                   firing |-> u.firing,
                   spike_time_ms |-> u.spike_time_ms],
         rng |-> u.rng]

\* lines 72-74: the sum of n draws of random.uniform(-1.0, 1.0), times RNG_M
RECURSIVE UniformSum(_, _)
UniformSum(n, r) ==
    IF n = 0 THEN [r |-> 0, rng |-> r]
    ELSE LET prev == UniformSum(n - 1, r)
             x == Draw(prev.rng)
         IN  [r |-> prev.r + (2 * x - RNG_M), rng |-> x]

\* _gaussian_noise (lines 69-78), in thousandths; sqrt(3)/sqrt(6) = 0.7071
_gaussian_noise(r) ==
    LET g == UniformSum(6, r)
    IN  [r |-> (7071 * g.r) \div (10 * RNG_M), rng |-> g.rng]

\* _lfp_voltage (lines 80-85)
_lfp_voltage(self) ==
    LET amplitude == 100000 + 80 * Sin1000((self.t_ms * 5) \div 10000)
    IN  (amplitude * Sin1000((self.t_ms * 23) \div 10000)) \div 1000

\* a variant without the refractory branch: the unit is idle again as soon
\* as its phase time has reached its duration
_next_spike_voltage_norefractory(self, unit) ==
    IF self.spike_time_ms[unit] < self.spike_duration_ms[unit]
    THEN LET amplitude == (self.spike_amplitude[unit] * Exp1000(self.spike_time_ms[unit])) \div 1000
             phase == (1000 * self.spike_time_ms[unit]) \div self.spike_duration_ms[unit]
         IN  [self |-> [self EXCEPT !.spike_time_ms[unit] = @ + self.t_step_ms],
              result |-> (amplitude * Sin1000(phase)) \div 1000]
    ELSE [self |-> [self EXCEPT !.firing[unit] = FALSE, !.spike_time_ms[unit] = 0],
          result |-> 0]

\* _next_spike_voltage (lines 87-104): the object afterwards and the voltage
_next_spike_voltage(self, unit) ==
    IF self.spike_time_ms[unit] < self.spike_duration_ms[unit]
    THEN LET amplitude == (self.spike_amplitude[unit] * Exp1000(self.spike_time_ms[unit])) \div 1000
             phase == (1000 * self.spike_time_ms[unit]) \div self.spike_duration_ms[unit]
         IN  [self |-> [self EXCEPT !.spike_time_ms[unit] = @ + self.t_step_ms],
              result |-> (amplitude * Sin1000(phase)) \div 1000]
    ELSE IF self.spike_time_ms[unit] < self.spike_duration_ms[unit] + 5000
    THEN [self |-> [self EXCEPT !.spike_time_ms[unit] = @ + self.t_step_ms], result |-> 0]
    ELSE [self |-> [self EXCEPT !.firing[unit] = FALSE, !.spike_time_ms[unit] = 0],
          result |-> 0]

\* _seizure_voltage (lines 106-124): the object, the generator state, the voltage
_seizure_voltage(self, r) ==
    IF self.seizure_start_time_ms = None
    THEN LET x == Draw(r)
         IN  [self |-> IF x * 1000000 < RNG_M * (self.t_step_ms \div 100)
                       THEN [self EXCEPT !.seizure_start_time_ms = self.t_ms]
                       ELSE self,
              rng |-> x, result |-> 0]
    ELSE LET elapsed == self.t_ms - self.seizure_start_time_ms
         IN  IF elapsed < 6000000
             THEN [self |-> self, rng |-> r,
                   result |-> 500 * Sin1000((elapsed * 25) \div 10000)]
             ELSE [self |-> [self EXCEPT !.seizure_start_time_ms = None], rng |-> r,
                   result |-> 0]

\* lines 132-141 for the units 1 .. n of the object, from generator state r
RECURSIVE UnitLoop(_, _, _)
UnitLoop(self, r, n) ==
    IF n = 0 THEN [self |-> self, rng |-> r, result |-> 0]
    ELSE LET prev == UnitLoop(self, r, n - 1)
             me == prev.self
         IN  IF me.firing[n]
             THEN LET sv == _next_spike_voltage(me, n)
                  IN  [self |-> sv.self, rng |-> prev.rng, result |-> prev.result + sv.result]
             ELSE LET spike_modulation_factor == (1000000 - (me.t_ms % 1000000)) \div 1000
                      rate == (spike_modulation_factor * me.spike_rate_hz[n]) \div 1000
                      \* (rate * t_step_ms) \div 1000, the product kept in range
                      probability == rate * (me.t_step_ms \div 1000)
                                        + (rate * (me.t_step_ms % 1000)) \div 1000
                      x == Draw(prev.rng)
                  IN  [self |-> IF x * 1000000 < RNG_M * probability
                                THEN [me EXCEPT !.firing[n] = TRUE] ELSE me,
                       rng |-> x, result |-> prev.result]

\* a variant that advances time only in the seizure branch
next_sample_seizure_clock(self, r) ==
    LET noise == _gaussian_noise(r)
        units == UnitLoop(self, noise.rng, self.n_units)
        lfp == _lfp_voltage(units.self)
        seizure == IF self.enable_seizures
                   THEN LET sz == _seizure_voltage(units.self, units.rng)
                        IN  [sz EXCEPT !.self.t_ms = @ + self.t_step_ms]
                   ELSE [self |-> units.self, rng |-> units.rng, result |-> 0]
    IN  [self |-> seizure.self,
         rng |-> seizure.rng,
         result |-> 5 * noise.r + units.result + lfp + seizure.result]

\* next_sample (lines 126-153): the object, the generator state, the voltage
next_sample(self, r) ==
    LET noise == _gaussian_noise(r)
        units == UnitLoop(self, noise.rng, self.n_units)
        lfp == _lfp_voltage(units.self)
        seizure == IF self.enable_seizures THEN _seizure_voltage(units.self, units.rng)
                   ELSE [self |-> units.self, rng |-> units.rng, result |-> 0]
    IN  [self |-> [seizure.self EXCEPT !.t_ms = @ + self.t_step_ms],
         rng |-> seizure.rng,
         result |-> 5 * noise.r + units.result + lfp + seizure.result]

\* a variant that stores the value into the uint16 array without the tests of
\* lines 218-221: it wraps
Code16_wrap(voltage_uv) == (RoundDiv(voltage_uv, 195) + 32768) % 65536

\* lines 217-221: microvolts to the 16-bit code
Code16(voltage_uv) ==
    LET code16 == RoundDiv(voltage_uv, 195) + 32768
    IN  IF code16 < 0 THEN 0 ELSE IF code16 > 65535 THEN 65535 ELSE code16

\* n calls of next_sample on one object, nothing else drawing from the
\* generator in between (lines 213-221): the object, the generator state and
\* the codes
RECURSIVE Samples(_, _, _)
Samples(self, r, n) ==
    IF n = 0 THEN [self |-> self, rng |-> r, data |-> << >>]
    ELSE LET prev == Samples(self, r, n - 1)
             ns == next_sample(prev.self, prev.rng)
         IN  [self |-> ns.self, rng |-> ns.rng, data |-> Append(prev.data, Code16(ns.result))]

-----------------------------------------------------------------------------
(* One NeuralSynthSource object: construction, then next_sample and reset
   calls in any order *)

\* a variant that leaves an active seizure running
reset_keep_seizure(self) ==
    [self EXCEPT !.t_ms = 0,
                 !.firing = [unit \in 1 .. self.n_units |-> FALSE],
                 !.spike_time_ms = [unit \in 1 .. self.n_units |-> 0]]

\* reset (lines 155-161)
reset(self) ==
    [self EXCEPT !.t_ms = 0,
                 !.seizure_start_time_ms = None,
                 !.firing = [unit \in 1 .. self.n_units |-> FALSE],
                 !.spike_time_ms = [unit \in 1 .. self.n_units |-> 0]]

SampleRates == {1000, 1}

SynthInit ==
    /\ CodecIdle
    /\ EventIdle
    /\ RunIdle
    /\ PureIdle
    /\ gpc = "idle"
    /\ gargs = << >>
    /\ clock = 0
    /\ sources = << >>
    /\ channel = 0
    /\ sample = 0
    /\ data16 = << >>
    /\ results = << >>
    /\ \E sample_rate \in SampleRates, seed \in 0 .. (RNG_M - 1), enable_seizures \in BOOLEAN :
          LET new == NeuralSynthSource(sample_rate, 2, seed, enable_seizures, 0)
          IN  /\ source = new.self
              /\ rng = new.rng
    /\ calls = 0
    /\ voltage = 0

NextSample ==
    /\ calls < MaxCalls
    /\ LET ns == next_sample(source, rng)
       IN  /\ source' = ns.self
           /\ rng' = ns.rng
           /\ voltage' = ns.result
    /\ calls' = calls + 1
    /\ UNCHANGED <<gpc, gargs, clock, sources, channel, sample, data16, results>>
    /\ UNCHANGED <<codecVars, eventVars, runVars, pureVars>>

Reset ==
    /\ calls < MaxCalls
    /\ source' = reset(source)
    /\ calls' = calls + 1
    /\ UNCHANGED <<voltage, genVars>>
    /\ UNCHANGED <<codecVars, eventVars, runVars, pureVars>>

SynthNext == NextSample \/ Reset

SpecSynth == SynthInit /\ [][SynthNext]_vars

\* the caller's loop keeps calling next_sample (lines 212-214): weak fairness
\* of NextSample, its enabling condition written out as calls < MaxCalls
SpecSynthLive ==
    SpecSynth /\ ([]<>(calls >= MaxCalls) \/ []<><<NextSample>>_vars)

-----------------------------------------------------------------------------
(* Pure helpers applied to inputs drawn from bounded sets *)

\* a variant that appends 16 - rem bytes whatever rem is
ensure_multiple_of_16_always(data) ==
    LET rem == Len(data) % 16
    IN  data \o [i \in 1 .. (16 - rem) |-> 0]

\* ensure_multiple_of_16 (run_tests.py lines 66-69)
ensure_multiple_of_16(data) ==
    LET rem == Len(data) % 16
    IN  IF rem = 0 THEN data ELSE data \o [i \in 1 .. (16 - rem) |-> 0]

\* byte strings handed to ensure_multiple_of_16: no byte is zero
PadInputs ==
    { [i \in 1 .. n |-> 1 + ((37 * i + c) % 255)] : n \in 0 .. MaxPadLen, c \in {0, 100} }

Abs(v) == IF v < 0 THEN 0 - v ELSE v

(* numpy int32 arithmetic (diagnose_channel.py lines 11, 16-18).  An exact
   integer is kept as two 16-bit halves, hi * 65536 + lo with lo in
   0 .. 65535, so that a product of two 17-bit operands can be formed before
   it is cut to 32 bits. *)
ToWide(v) == [hi |-> v \div 65536, lo |-> v % 65536]

\* the exact product of x and y, each within -65536 .. 65536
WideMul(x, y) ==
    LET p1 == (x \div 256) * y
        lo_raw == (p1 % 256) * 256 + (x % 256) * y
    IN  [hi |-> (p1 \div 256) + (lo_raw \div 65536), lo |-> lo_raw % 65536]

\* the exact difference
WideSub(a, b) ==
    [hi |-> a.hi - b.hi + ((a.lo - b.lo) \div 65536), lo |-> (a.lo - b.lo) % 65536]

\* a variant that keeps 31 bits
Int32_narrow(a) == [hi |-> ((a.hi + 16384) % 32768) - 16384, lo |-> a.lo]

\* the low 32 bits, read as a two's complement number
Int32(a) == [hi |-> ((a.hi + 32768) % 65536) - 32768, lo |-> a.lo]

\* the integer a two-halves value within 32 bits stands for
Narrow(a) == a.hi * 65536 + a.lo

int32_mul(x, y) == Narrow(Int32(WideMul(x, y)))
int32_sub(x, y) == Narrow(Int32(WideSub(ToWide(x), ToWide(y))))

\* a variant without the absolute value of line 18
compute_neo_signed(signal) ==
    LET x_centered == [j \in 1 .. Len(signal) |-> signal[j] - 32768]
    IN  [j \in 1 .. Len(signal) |->
            IF (j - 1) \in 1 .. (Len(signal) - 2)
            THEN (x_centered[j] * x_centered[j]) - (x_centered[j - 1] * x_centered[j + 1])
            ELSE 0]

\* compute_neo (diagnose_channel.py lines 8-20); element j of the sequences
\* is index j - 1 of the arrays.  The arithmetic is that of int32.
compute_neo(signal) ==
    LET x_centered == [j \in 1 .. Len(signal) |-> int32_sub(signal[j], 32768)]
    IN  [j \in 1 .. Len(signal) |->
            IF (j - 1) \in 1 .. (Len(signal) - 2)
            THEN LET curr_sq == int32_mul(x_centered[j], x_centered[j])
                     neigh_mul == int32_mul(x_centered[j - 1], x_centered[j + 1])
                 IN  Abs(int32_sub(curr_sq, neigh_mul))
            ELSE 0]

\* diagnose_channel.py line 48: np.where(neo > threshold)[0]
Detections(neo, threshold) == {i \in 0 .. (Len(neo) - 1) : neo[i + 1] > threshold}

AdcSamples == {0, 32468, 32768, 32868, 33168, 65535}
AdcInputs == UNION { [1 .. n -> AdcSamples] : n \in 0 .. MaxNeoLen }

\* voltages handed to the quantizer, in thousandths of a microvolt
Voltages ==
    { -10000000, -6389858, -6389857, -6389760, -6389663, -1000000, -195, -98, -97, 0,
      97, 98, 195, 1000000, 6389565, 6389662, 6389663, 6389760, 10000000 }

PureInit ==
    /\ CodecIdle
    /\ EventIdle
    /\ RunIdle
    /\ GenIdle
    /\ SynthIdle
    /\ fout = << >>
    /\ \/ fpc = "pad" /\ fin \in PadInputs
       \/ fpc = "quantize" /\ fin \in Voltages
       \/ fpc = "neo" /\ fin \in AdcInputs

\* line 280
Pad ==
    /\ fpc = "pad"
    /\ fout' = ensure_multiple_of_16(fin)
    /\ fpc' = "padded"
    /\ UNCHANGED fin
    /\ UNCHANGED <<codecVars, eventVars, runVars, genVars, synthVars>>

\* the result padded once more
PadAgain ==
    /\ fpc = "padded"
    /\ fin' = fout
    /\ fout' = ensure_multiple_of_16(fout)
    /\ fpc' = "padded2"
    /\ UNCHANGED <<codecVars, eventVars, runVars, genVars, synthVars>>

\* synthetic.py lines 217-224
Quantize ==
    /\ fpc = "quantize"
    /\ fout' = Code16(fin)
    /\ fpc' = "quantized"
    /\ UNCHANGED fin
    /\ UNCHANGED <<codecVars, eventVars, runVars, genVars, synthVars>>

\* diagnose_channel.py lines 42-48
ComputeNeo ==
    /\ fpc = "neo"
    /\ fout' = [neo |-> compute_neo(fin),
                detections |-> Detections(compute_neo(fin), NEO_THRESHOLD)]
    /\ fpc' = "neo_done"
    /\ UNCHANGED fin
    /\ UNCHANGED <<codecVars, eventVars, runVars, genVars, synthVars>>

PureNext == Pad \/ PadAgain \/ Quantize \/ ComputeNeo

SpecPure == PureInit /\ [][PureNext]_vars

-----------------------------------------------------------------------------
(* The device run of main, run_tests.py lines 241-363, and the FrontPanel
   wrapper of ok.py.  Register values are 32-bit vectors. *)
Mask32(v) == [i \in 1 .. 32 |-> IF i <= Len(v) THEN v[i] ELSE 0]   \* v & 0xFFFFFFFF
Ones32 == [i \in 1 .. 32 |-> 1]                                    \* 0xFFFFFFFF
Zero32 == [i \in 1 .. 32 |-> 0]
CTRL_RESET == [i \in 1 .. 32 |-> IF i = 32 THEN 1 ELSE 0]          \* 0x8000_0000

WireEndpoints == {WIREIN_CTRL, WIREIN_TS_LO, WIREIN_TS_HI, WIREIN_THRESHOLD,
                  WIREIN_WINDOW_TIMEOUT, WIREIN_TRANSITION_COUNT}

\* ErrorCode.Failed, ErrorCode.Timeout (ok.py lines 21-22)
ErrorCodes == {-1, -2}

\* values random.getrandbits(64) may return
RandBits64 == { [i \in 1 .. 64 |-> 1], [i \in 1 .. 64 |-> IF i \in {1, 33, 64} THEN 1 ELSE 0] }

\* buffers the device may deliver on the output pipe
ReadBuffers == { << >>, <<1, 2, 3>>, DeviceWord(0, ChanA, 5),
                 DeviceWord(1, ChanA, 0) \o DeviceWord(2, ChanA, 108) }

LogEntry(op, ep, val, regs, chunk, status) ==
    [op |-> op, ep |-> ep, val |-> val, regs |-> regs, chunk |-> chunk, status |-> status]

\* okCFrontPanel.SetWireInValue (ok.py lines 144-146): the masked bits of the
\* staged endpoint value are replaced
SetWireInValue(staged, ep, val, mask) ==
    [staged EXCEPT ![ep] =
        [i \in 1 .. 32 |-> IF Mask32(mask)[i] = 1 THEN Mask32(val)[i] ELSE @[i]]]

\* okCFrontPanel.ReadFromPipeOut (ok.py lines 170-176)
ReadFromPipeOut(result, data_array) ==
    IF result < 0 THEN << >> ELSE SubSeq(data_array, 1, result)

\* ensure_multiple_of_16 (lines 66-69), on the length of the data
PaddedLength(n) == IF n % 16 = 0 THEN n ELSE n + (16 - (n % 16))

\* a variant that sets the threshold only after the first commit
WireCalls_late(a, t) ==
    << [op |-> "SetWireInValue", ep |-> WIREIN_WINDOW_TIMEOUT, val |-> Mask32(BvOfInt(a.window_timeout))],
       [op |-> "SetWireInValue", ep |-> WIREIN_TRANSITION_COUNT, val |-> Mask32(BvOfInt(a.transition_count))],
       [op |-> "SetWireInValue", ep |-> WIREIN_TRANSITION_COUNT, val |-> Mask32(BvOfInt(a.transition_count))],
       [op |-> "SetWireInValue", ep |-> WIREIN_TS_LO, val |-> Mask32(t)],
       [op |-> "SetWireInValue", ep |-> WIREIN_TS_HI, val |-> Mask32(BvShr(t, 32))],
       [op |-> "SetWireInValue", ep |-> WIREIN_CTRL, val |-> CTRL_RESET],
       [op |-> "UpdateWireIns", ep |-> WIREIN_CTRL, val |-> << >>],
       [op |-> "SetWireInValue", ep |-> WIREIN_THRESHOLD, val |-> Mask32(BvOfInt(a.threshold))],
       [op |-> "UpdateWireIns", ep |-> WIREIN_CTRL, val |-> << >>] >>

\* the register calls of lines 264-275, in program order
WireCalls(a, t) ==
    << [op |-> "SetWireInValue", ep |-> WIREIN_THRESHOLD, val |-> Mask32(BvOfInt(a.threshold))],
       [op |-> "SetWireInValue", ep |-> WIREIN_WINDOW_TIMEOUT, val |-> Mask32(BvOfInt(a.window_timeout))],
       [op |-> "SetWireInValue", ep |-> WIREIN_TRANSITION_COUNT, val |-> Mask32(BvOfInt(a.transition_count))],
       [op |-> "SetWireInValue", ep |-> WIREIN_TS_LO, val |-> Mask32(t)],
       [op |-> "SetWireInValue", ep |-> WIREIN_TS_HI, val |-> Mask32(BvShr(t, 32))],
       [op |-> "SetWireInValue", ep |-> WIREIN_CTRL, val |-> CTRL_RESET],
       [op |-> "UpdateWireIns", ep |-> WIREIN_CTRL, val |-> << >>],
       [op |-> "SetWireInValue", ep |-> WIREIN_CTRL, val |-> Zero32],
       [op |-> "UpdateWireIns", ep |-> WIREIN_CTRL, val |-> << >>] >>

\* a variant that carries on with the next chunk whatever the status
AfterWrite_ignore(status) == "send"

\* lines 282-284: where main goes after a chunk write returned status
AfterWrite(status) == IF status < 0 THEN "exit" ELSE "send"

\* lines 303-315 over all words
CountEvents(ws) ==
    [starts |-> Len(SelectSeq(ws, LAMBDA w : EventCode(w) = 1)),
     ends |-> Len(SelectSeq(ws, LAMBDA w : EventCode(w) = 2)),
     idle |-> Len(SelectSeq(ws, LAMBDA w : EventCode(w) \notin {1, 2}))]

\* lines 352-357
Summary(ws, c) ==
    IF Len(ws) = 0 THEN "WARNING: No events received"
    ELSE IF c.starts = 0 /\ c.ends = 0 THEN "WARNING: All events are idle"
    ELSE "SUCCESS"

RunArgs ==
    [seed : {None, 7}, chunks : 0 .. MaxChunks, threshold : {150000, 0},
     window_timeout : {300}, transition_count : {50}, bitfile : BOOLEAN]

RunInit ==
    /\ SynthIdle
    /\ PureIdle
    /\ CodecIdle
    /\ GenIdle
    /\ EventIdle
    /\ rpc = "count"
    /\ args \in RunArgs
    /\ wire_staged = [ep \in WireEndpoints |-> Zero32]
    /\ wire_dev = [ep \in WireEndpoints |-> Zero32]
    /\ dev_log = << >>
    /\ wstep = 0
    /\ ts = << >>
    /\ chunk_idx = 0
    /\ len_out = None
    /\ summary = ""
    /\ exit_code = None

Exit(code) ==
    /\ rpc' = "exit"
    /\ exit_code' = code

\* lines 242-246
GetDeviceCount ==
    /\ rpc = "count"
    /\ \E count \in {0, 1} :
          IF count <= 0 THEN Exit(1) ELSE rpc' = "open" /\ UNCHANGED exit_code
    /\ UNCHANGED <<args, wire_staged, wire_dev, dev_log, wstep, ts, chunk_idx,
                   len_out, summary>>
    /\ UNCHANGED <<codecVars, eventVars, genVars, synthVars, pureVars>>

\* lines 248-253
OpenBySerial ==
    /\ rpc = "open"
    /\ \E rc \in {NoError} \cup ErrorCodes :
          IF rc # NoError THEN Exit(1)
          ELSE rpc' = (IF args.bitfile THEN "configure" ELSE "wire") /\ UNCHANGED exit_code
    /\ UNCHANGED <<args, wire_staged, wire_dev, dev_log, wstep, ts, chunk_idx,
                   len_out, summary>>
    /\ UNCHANGED <<codecVars, eventVars, genVars, synthVars, pureVars>>

\* lines 256-261
ConfigureFPGA ==
    /\ rpc = "configure"
    /\ \E rc \in {NoError} \cup ErrorCodes :
          IF rc # NoError THEN Exit(1) ELSE rpc' = "wire" /\ UNCHANGED exit_code
    /\ UNCHANGED <<args, wire_staged, wire_dev, dev_log, wstep, ts, chunk_idx,
                   len_out, summary>>
    /\ UNCHANGED <<codecVars, eventVars, genVars, synthVars, pureVars>>

\* line 269
DrawTimestamp ==
    /\ rpc = "wire"
    /\ wstep = 3
    /\ ts = << >>
    /\ \E r \in RandBits64 :
          ts' = IF args.seed = None THEN r ELSE Mask32(BvOfInt(args.seed)) \o Zero32
    /\ UNCHANGED <<rpc, args, wire_staged, wire_dev, dev_log, wstep, chunk_idx,
                   len_out, summary, exit_code>>
    /\ UNCHANGED <<codecVars, eventVars, genVars, synthVars, pureVars>>

\* one of the calls of lines 264-266 and 270-275
WireCall ==
    /\ rpc = "wire"
    /\ wstep < 3 \/ ts # << >>
    /\ LET call == WireCalls(args, ts)[wstep + 1]
       IN  IF call.op = "SetWireInValue"
           THEN /\ wire_staged' = SetWireInValue(wire_staged, call.ep, call.val, Ones32)
                /\ dev_log' = Append(dev_log,
                                  LogEntry(call.op, call.ep, Mask32(call.val), << >>, None, 0))
                /\ UNCHANGED wire_dev
           ELSE /\ wire_dev' = wire_staged
                /\ dev_log' = Append(dev_log,
                                  LogEntry(call.op, None, << >>, wire_staged, None, 0))
                /\ UNCHANGED wire_staged
    /\ wstep' = wstep + 1
    /\ rpc' = IF wstep + 1 = Len(WireCalls(args, ts)) THEN "send" ELSE "wire"
    /\ UNCHANGED <<args, ts, chunk_idx, len_out, summary, exit_code>>
    /\ UNCHANGED <<codecVars, eventVars, genVars, synthVars, pureVars>>

\* one iteration of the send loop (lines 279-286)
WriteChunk ==
    /\ rpc = "send"
    /\ chunk_idx < args.chunks
    /\ \E status \in {PaddedLength(CHUNK_BYTES)} \cup ErrorCodes :
          /\ dev_log' = Append(dev_log,
                            LogEntry("WriteToPipeIn", PIPE_IN_ADDR, << >>, << >>, chunk_idx, status))
          /\ IF AfterWrite(status) = "exit"
             THEN Exit(1) /\ UNCHANGED chunk_idx
             ELSE rpc' = "send" /\ chunk_idx' = chunk_idx + 1 /\ UNCHANGED exit_code
    /\ UNCHANGED <<args, wire_staged, wire_dev, wstep, ts, len_out, summary>>
    /\ UNCHANGED <<codecVars, eventVars, genVars, synthVars, pureVars>>

\* lines 287-289
SendDone ==
    /\ rpc = "send"
    /\ chunk_idx = args.chunks
    /\ rpc' = "read"
    /\ UNCHANGED <<args, wire_staged, wire_dev, dev_log, wstep, ts, chunk_idx,
                   len_out, summary, exit_code>>
    /\ UNCHANGED <<codecVars, eventVars, genVars, synthVars, pureVars>>

\* lines 292-295
ReadEvents ==
    /\ rpc = "read"
    /\ \E data \in ReadBuffers, err \in {0} \cup ErrorCodes :
          LET result == IF err < 0 THEN err ELSE Len(data)
          IN  /\ out' = ReadFromPipeOut(result, data)
              /\ len_out' = Len(ReadFromPipeOut(result, data))
              /\ dev_log' = Append(dev_log,
                                LogEntry("ReadFromPipeOut", PIPE_OUT_ADDR, << >>, << >>, None, result))
    /\ rpc' = "decode"
    /\ UNCHANGED <<args, wire_staged, wire_dev, wstep, ts, chunk_idx, summary, exit_code>>
    /\ UNCHANGED <<epc, words, wi, events_by_channel, counts, files, pch, lines, li,
                   start_time, seizures, intervals>>
    /\ UNCHANGED revision
    /\ UNCHANGED <<codecVars, genVars, synthVars, pureVars>>

\* lines 297-357: decode, write the files, log the summary
DecodeReport ==
    /\ rpc = "decode"
    /\ words' = SplitWords(out)
    /\ counts' = CountEvents(SplitWords(out))
    /\ summary' = Summary(SplitWords(out), CountEvents(SplitWords(out)))
    /\ rpc' = "plot"
    /\ UNCHANGED <<args, wire_staged, wire_dev, dev_log, wstep, ts, chunk_idx,
                   len_out, exit_code>>
    /\ UNCHANGED <<epc, out, wi, events_by_channel, files, pch, lines, li,
                   start_time, seizures, intervals>>
    /\ UNCHANGED revision
    /\ UNCHANGED <<codecVars, genVars, synthVars, pureVars>>

\* lines 359-363: plots, "DONE!", normal end
Finish ==
    /\ rpc = "plot"
    /\ rpc' = "done"
    /\ exit_code' = 0
    /\ UNCHANGED <<args, wire_staged, wire_dev, dev_log, wstep, ts, chunk_idx,
                   len_out, summary>>
    /\ UNCHANGED <<codecVars, eventVars, genVars, synthVars, pureVars>>

RunNext == GetDeviceCount \/ OpenBySerial \/ ConfigureFPGA \/ DrawTimestamp \/ WireCall
              \/ WriteChunk \/ SendDone \/ ReadEvents \/ DecodeReport \/ Finish

SpecRun == RunInit /\ [][RunNext]_vars

-----------------------------------------------------------------------------
(* Two calls of generate_data_intan16 under the same command-line seed *)
GenArgs ==
    [seed : {None, 7}, num_channels : 1 .. MaxGenChannels,
     samples_per_channel : 0 .. MaxGenSamples, sample_rate : {1000},
     enable_seizures : BOOLEAN]

GenInit ==
    /\ SynthIdle
    /\ PureIdle
    /\ CodecIdle
    /\ EventIdle
    /\ RunIdle
    /\ gpc = "seed"
    /\ gargs \in GenArgs
    /\ rng \in {0, 9}
    /\ clock = 0
    /\ sources = << >>
    /\ channel = 0
    /\ sample = 0
    /\ data16 = << >>
    /\ results = << >>

\* run_tests.py lines 212-213
SeedRandom ==
    /\ gpc = "seed"
    /\ rng' = IF gargs.seed # None THEN Seed(gargs.seed) ELSE rng
    /\ gpc' = "call"
    /\ UNCHANGED <<gargs, clock, sources, channel, sample, data16, results>>
    /\ UNCHANGED <<codecVars, eventVars, runVars, synthVars, pureVars>>

\* synthetic.py lines 204-207
Allocate ==
    /\ gpc = "call"
    /\ data16' = [i \in 1 .. (gargs.num_channels * gargs.samples_per_channel) |-> 0]
    /\ sources' = << >>
    /\ channel' = 0
    /\ gpc' = "construct"
    /\ UNCHANGED <<gargs, rng, clock, sample, results>>
    /\ UNCHANGED <<codecVars, eventVars, runVars, synthVars, pureVars>>

\* lines 208-210, one iteration; time.time() does not go back
Construct ==
    /\ gpc = "construct"
    /\ channel < gargs.num_channels
    /\ \E now \in clock .. MaxClock :
          LET random_seed == IF gargs.enable_seizures THEN channel + now ELSE channel
              new == NeuralSynthSource(gargs.sample_rate, 2, random_seed,
                                       gargs.enable_seizures, rng)
          IN  /\ clock' = now
              /\ sources' = Append(sources, new.self)
              /\ rng' = new.rng
    /\ channel' = channel + 1
    /\ UNCHANGED <<gpc, gargs, sample, data16, results>>
    /\ UNCHANGED <<codecVars, eventVars, runVars, synthVars, pureVars>>

\* line 212: the sampling loop starts
ConstructDone ==
    /\ gpc = "construct"
    /\ channel = gargs.num_channels
    /\ gpc' = "sample"
    /\ channel' = 0
    /\ sample' = 0
    /\ UNCHANGED <<gargs, rng, clock, sources, data16, results>>
    /\ UNCHANGED <<codecVars, eventVars, runVars, synthVars, pureVars>>

\* lines 213-224, one iteration
Sample ==
    /\ gpc = "sample"
    /\ channel < gargs.num_channels
    /\ sample < gargs.samples_per_channel
    /\ LET ns == next_sample(sources[channel + 1], rng)
           idx == channel * gargs.samples_per_channel + sample
       IN  /\ sources' = [sources EXCEPT ![channel + 1] = ns.self]
           /\ rng' = ns.rng
           /\ data16' = [data16 EXCEPT ![idx + 1] = Code16(ns.result)]
    /\ sample' = sample + 1
    /\ UNCHANGED <<gpc, gargs, clock, channel, results>>
    /\ UNCHANGED <<codecVars, eventVars, runVars, synthVars, pureVars>>

\* line 212, next channel
NextChannel ==
    /\ gpc = "sample"
    /\ channel < gargs.num_channels
    /\ sample = gargs.samples_per_channel
    /\ channel' = channel + 1
    /\ sample' = 0
    /\ UNCHANGED <<gpc, gargs, rng, clock, sources, data16, results>>
    /\ UNCHANGED <<codecVars, eventVars, runVars, synthVars, pureVars>>

\* line 226; a second call follows the first
Return ==
    /\ gpc = "sample"
    /\ channel = gargs.num_channels
    /\ results' = Append(results, data16)
    /\ gpc' = IF Len(results) = 0 THEN "seed" ELSE "done"
    /\ UNCHANGED <<gargs, rng, clock, sources, channel, sample, data16>>
    /\ UNCHANGED <<codecVars, eventVars, runVars, synthVars, pureVars>>

GenNext == SeedRandom \/ Allocate \/ Construct \/ ConstructDone \/ Sample
              \/ NextChannel \/ Return

SpecGen == GenInit /\ [][GenNext]_vars

-----------------------------------------------------------------------------
WordPositions == 0 .. (NUM_CHANNELS * SAMPLES_PER_CHUNK - 1)

\* a step of the encoder appended chunk number Len(chunks) (0-based)
ChunkAppended == Len(chunks') = Len(chunks) + 1

(* C1: chunk round trip. Decoding the little-endian word at any position w of
   any chunk the encoder produces, with ch = (word >> 16) & 0x3F and
   code16 = word & 0xFFFF, gives back the channel w div 128 and the 16-bit
   sample the encoder placed at that position; and what the diagnostic
   extracts from a chunk is that pair. *)
C1_RoundTrip ==
    /\ [][ChunkAppended =>
            \A w \in WordPositions :
                ExtractWord(chunks'[Len(chunks')], w) =
                    [ch |-> w \div SAMPLES_PER_CHUNK,
                     code |-> Code16At(all_data_16, samples_per_channel, Len(chunks),
                                       w \div SAMPLES_PER_CHUNK, w % SAMPLES_PER_CHUNK)]]_vars
    /\ [](extracted.valid =>
            /\ extracted.ch = extracted.word \div SAMPLES_PER_CHUNK
            /\ extracted.code = Code16At(all_data_16, samples_per_channel, extracted.chunk,
                                         extracted.word \div SAMPLES_PER_CHUNK,
                                         extracted.word % SAMPLES_PER_CHUNK))

\* the diagnostic has decoded the last channel's first word of the second
\* chunk, and it carries a generated sample (not the pad value)
C1_Witness ==
    /\ extracted.valid
    /\ extracted.chunk = 1
    /\ extracted.word = 384
    /\ extracted.ch = 3
    /\ extracted.code > 255
    /\ extracted.code # MID_SCALE

(* C2: encode is channel-major with mid-scale end padding. In chunk c the word
   at position w has the value (ch << 16) | sample with ch = w div 128,
   s = w mod 128, idx = ch*samples_per_channel + c*128 + s, and sample =
   buffer[idx] when idx is inside the buffer, 32768 when idx is at or past
   its end. *)
C2_ChannelMajor ==
    [][ChunkAppended =>
        LET c == Len(chunks)
            chunk == chunks'[Len(chunks')]
        IN  /\ Len(chunk) = 4 * NUM_CHANNELS * SAMPLES_PER_CHUNK
            /\ \A w \in WordPositions :
                  LET ch == w \div 128
                      idx == ch * samples_per_channel + c * 128 + (w % 128)
                      want == IF idx < Len(all_data_16) THEN all_data_16[idx + 1] ELSE 32768
                  IN  /\ chunk[4 * w + 1] = want % 256
                      /\ chunk[4 * w + 2] = want \div 256
                      /\ chunk[4 * w + 3] = ch
                      /\ chunk[4 * w + 4] = 0]_vars

\* two chunks were encoded from a buffer that ends inside the second chunk:
\* the second chunk holds both buffer samples and pad words
C2_Witness ==
    /\ Len(chunks) = 2
    /\ samples_per_channel = SAMPLES_PER_CHUNK + 1
    /\ ExtractWord(chunks[2], 0).code = all_data_16[SAMPLES_PER_CHUNK + 1]
    /\ ExtractWord(chunks[2], 0).code # MID_SCALE
    /\ ExtractWord(chunks[2], NUM_CHANNELS * SAMPLES_PER_CHUNK - 1).code = MID_SCALE
    /\ ExtractWord(chunks[2], NUM_CHANNELS * SAMPLES_PER_CHUNK - 1).ch = NUM_CHANNELS - 1

-----------------------------------------------------------------------------
\* the low k bits of n, least significant first
IntBits(n, k) == [i \in 1 .. k |-> (n \div (2 ^ (i - 1))) % 2]

(* C3: Revision B event decode. For every decoded 32-bit word w the decoder
   takes event_code from bits [31:30], channel_id from bits [29:25] and the
   timestamp from bits [24:0]; the three fields partition the word, the
   channel is in 0..31, and code 1 is classified start, 2 end, 0 idle. *)
C3_RevisionB ==
    \A ch \in DOMAIN events_by_channel :
        \A k \in 1 .. Len(events_by_channel[ch]) :
            LET e == events_by_channel[ch][k]
            IN  /\ ch \in 0 .. 31
                /\ Len(e.w) = 32
                /\ e.code = e.w[31] + 2 * e.w[32]
                /\ IntBits(e.ts, 25) \o IntBits(ch, 5) \o IntBits(e.code, 2) = e.w
                /\ e.ts \in 0 .. MAX_TS
                /\ (e.code = 1 => e.str = STR_START)
                /\ (e.code = 2 => e.str = STR_END)
                /\ (e.code = 0 => e.str = STR_IDLE)

\* the word with bytes FF 80 40 7F was decoded: a start on channel 31 whose
\* timestamp uses bit 24
C3_Witness ==
    \E k \in 1 .. Len(events_by_channel[31]) :
        /\ events_by_channel[31][k].code = 1
        /\ events_by_channel[31][k].ts = 16777216 + 64 * 65536 + 128 * 256 + 255
        /\ events_by_channel[31][k].str = STR_START

\* parse_seizure_events is about to handle the line of event number
\* li - 3 of channel pch (the file starts with four header lines)
AtEventLine ==
    /\ epc = "parse"
    /\ li >= 4
    /\ li - 3 <= Len(events_by_channel[pch])

CurrentEvent == events_by_channel[pch][li - 3]

(* C4: duplicate start, first start wins. When parse_seizure_events meets a
   start event while the channel already has an open interval, the open
   interval keeps its original start timestamp. *)
C4_FirstStartWins ==
    [][(AtEventLine /\ CurrentEvent.code = 1 /\ start_time # None)
          => start_time' = start_time]_vars

\* indices of the end events of evs that close an interval
ClosingEnds(evs) ==
    { j \in 1 .. Len(evs) :
        /\ evs[j].code = 2
        /\ \E i \in 1 .. (j - 1) :
              /\ evs[i].code = 1
              /\ \A k \in (i + 1) .. (j - 1) : evs[k].code # 2 }

\* a start event occurs after the last end event that closed an interval
StartAfterLastClose(evs) ==
    \E i \in 1 .. Len(evs) :
        /\ evs[i].code = 1
        /\ \A j \in ClosingEnds(evs) : j < i

(* C5: end-of-stream open interval. The interval list of a channel holds a
   (start, None) entry exactly when a start event occurs after the last end
   event that closed an interval; that entry is unique and last, and while
   the list is built it holds no open entry (the open marker is the only
   open interval). *)
C5_OpenInterval ==
    /\ \A ch \in DOMAIN intervals :
          LET iv == intervals[ch]
              open == {k \in 1 .. Len(iv) : iv[k][2] = None}
          IN  /\ (open # {}) <=> StartAfterLastClose(events_by_channel[ch])
              /\ open \subseteq {Len(iv)}
    /\ \A k \in 1 .. Len(seizures) : seizures[k][2] # None

\* channel 0 was aggregated from start, end, start: a closed interval
\* followed by the open one
C5_Witness ==
    /\ ChanA \in DOMAIN intervals
    /\ intervals[ChanA] = << <<0, 108>>, <<1444, None>> >>

(* C6: an orphan end is discarded. An end event met while the channel has no
   open interval leaves the interval list and the open marker unchanged and
   the loop goes on; an end event met with an open interval appends
   (start, end) and clears the marker; so every closed interval pairs a start
   with the first end event after it. *)
C6_OrphanEnd ==
    /\ [][(AtEventLine /\ CurrentEvent.code = 2) =>
            IF start_time = None
            THEN /\ seizures' = seizures
                 /\ start_time' = None
                 /\ epc' = "parse"
                 /\ li' = li + 1
            ELSE /\ seizures' = Append(seizures, <<start_time, CurrentEvent.ts>>)
                 /\ start_time' = None]_vars
    /\ [](\A ch \in DOMAIN intervals :
            \A n \in 1 .. Len(intervals[ch]) :
                LET evs == events_by_channel[ch]
                    iv == intervals[ch][n]
                IN  iv[2] # None =>
                      \E i \in 1 .. Len(evs), j \in 1 .. Len(evs) :
                          /\ i < j
                          /\ evs[i].code = 1 /\ evs[i].ts = iv[1]
                          /\ evs[j].code = 2 /\ evs[j].ts = iv[2]
                          /\ \A k \in (i + 1) .. (j - 1) : evs[k].code # 2)

\* channel 0 was aggregated from end, start, end: the first end was an
\* orphan, the second closed the interval
C6_Witness ==
    /\ ChanA \in DOMAIN intervals
    /\ Len(events_by_channel[ChanA]) = 3
    /\ events_by_channel[ChanA][1].code = 2
    /\ events_by_channel[ChanA][1].ts = 108
    /\ intervals[ChanA] = << <<0, MAX_TS>> >>


-----------------------------------------------------------------------------
(* Claims on the device run *)
Writes == SelectSeq(dev_log, LAMBDA e : e.op = "WriteToPipeIn")
Reads == SelectSeq(dev_log, LAMBDA e : e.op = "ReadFromPipeOut")
WireOps == {i \in 1 .. Len(dev_log) : dev_log[i].op \in {"SetWireInValue", "UpdateWireIns"}}
Commits == SelectSeq(dev_log, LAMBDA e : e.op = "UpdateWireIns")
SendPhase == rpc \in {"send", "read", "decode", "plot", "done"} \/ Writes # << >>

\* C7: chunks are written in increasing index order, each at most once; a
\* negative write status is the last write, ends the run with exit code 1 and
\* no event read is ever made; the event read comes only after every chunk of
\* the run was written successfully.
C7_FailedWriteFatal ==
    /\ \A k \in 1 .. Len(Writes) :
          /\ Writes[k].chunk = k - 1
          /\ Writes[k].status < 0 =>
                /\ k = Len(Writes)
                /\ rpc = "exit"
                /\ exit_code = 1
                /\ Reads = << >>
    /\ Reads # << >> =>
          /\ Len(Writes) = args.chunks
          /\ \A k \in 1 .. Len(Writes) : Writes[k].status >= 0
          /\ \A i, j \in 1 .. Len(dev_log) :
                dev_log[i].op = "ReadFromPipeOut" /\ dev_log[j].op = "WriteToPipeIn" => j < i

C7_Witness ==
    /\ Len(Writes) = 2
    /\ Writes[1].status >= 0
    /\ Writes[2].status < 0
    /\ rpc = "exit"

\* C8: after a read of the output pipe that returned a negative result the run
\* neither logs an event summary nor ends normally.
C8_FailedReadFatal ==
    (\E k \in 1 .. Len(Reads) : Reads[k].status < 0) => summary = "" /\ exit_code # 0

\* C9: once the send phase is reached the device has received exactly the
\* register calls of the set-up; the first commit carries the threshold, the
\* window timeout, the transition count, both timestamp halves and control
\* 0x80000000, the second commit carries the same values with control 0; every
\* register call precedes every chunk write, and the committed registers do
\* not change afterwards.
C9_RegistersBeforeStreaming ==
    SendPhase =>
        /\ Len(Commits) = 2
        /\ \A k \in 1 .. 2 :
              /\ Commits[k].regs[WIREIN_THRESHOLD] = Mask32(BvOfInt(args.threshold))
              /\ Commits[k].regs[WIREIN_WINDOW_TIMEOUT] = Mask32(BvOfInt(args.window_timeout))
              /\ Commits[k].regs[WIREIN_TRANSITION_COUNT] = Mask32(BvOfInt(args.transition_count))
              /\ Commits[k].regs[WIREIN_TS_LO] = SubSeq(ts, 1, 32)
              /\ Commits[k].regs[WIREIN_TS_HI] = SubSeq(ts, 33, 64)
        /\ args.seed # None => BvVal(ts) = args.seed
        /\ Commits[1].regs[WIREIN_CTRL] = CTRL_RESET
        /\ Commits[2].regs[WIREIN_CTRL] = Zero32
        /\ wire_dev = Commits[2].regs
        /\ wire_staged = wire_dev
        /\ Cardinality(WireOps) = 9
        /\ \A i \in WireOps, j \in 1 .. Len(dev_log) :
              dev_log[j].op \in {"WriteToPipeIn", "ReadFromPipeOut"} => i < j

C9_Witness ==
    /\ Len(Writes) = MaxChunks
    /\ args.seed = None
    /\ ts[64] = 1
    /\ BvVal(wire_dev[WIREIN_THRESHOLD]) = 150000
    /\ BvVal(wire_dev[WIREIN_WINDOW_TIMEOUT]) = 300

-----------------------------------------------------------------------------
(* Claims on the generator *)
\* C10: two calls of generate_data_intan16 made under the same seed with the
\* same arguments return equal buffers, with and without seizures.
C10_Determinism ==
    (gpc = "done" /\ gargs.seed # None) => results[1] = results[2]

\* the codes stored so far for channel c by the running call
Stored(c) ==
    LET n == IF c < channel THEN gargs.samples_per_channel
             ELSE IF c = channel THEN sample ELSE 0
    IN  SubSeq(data16, c * gargs.samples_per_channel + 1, c * gargs.samples_per_channel + n)

\* the codes a synthesizer constructed with this seed produces when it is the
\* only one constructed and stepped
Alone(seed, n) ==
    LET new == NeuralSynthSource(gargs.sample_rate, 2, seed, gargs.enable_seizures, rng)
    IN  Samples(new.self, new.rng, n).data

\* C11: the samples of a channel are those its own synthesizer produces from
\* its own seed and draws, whatever other channels were constructed or stepped
\* before.
C11_ChannelIndependence ==
    gpc = "sample" =>
        \A c \in 0 .. (gargs.num_channels - 1) :
            IF gargs.enable_seizures
            THEN \E now \in 0 .. clock : Stored(c) = Alone(c + now, Len(Stored(c)))
            ELSE Stored(c) = Alone(c, Len(Stored(c)))

-----------------------------------------------------------------------------
(* Claims on one synthesizer object *)
\* C12: every unit is not firing, or firing with
\* 0 <= spike_time_ms < spike_duration_ms + spike_refractory_period_ms.
C12_SpikeStateInvariant ==
    \A unit \in 1 .. source.n_units :
        source.firing[unit] =>
            /\ 0 <= source.spike_time_ms[unit]
            /\ source.spike_time_ms[unit] < source.spike_duration_ms[unit] + 5000

\* C13: the object has no active seizure, or an active one with
\* 0 <= t_ms - seizure_start_time_ms < seizure_duration_ms.
C13_SeizureStateInvariant ==
    source.seizure_start_time_ms # None =>
        /\ 0 <= source.t_ms - source.seizure_start_time_ms
        /\ source.t_ms - source.seizure_start_time_ms < 6000000

-----------------------------------------------------------------------------
(* Claims on the decoder configuration *)
\* C14: with a Revision A device selected, every decoded event has its kind
\* from bit 31 (1 start, 0 end), its channel from bits 30:26 and its
\* timestamp from bits 25:0 of the word.
C14_RevisionSelected ==
    revision = "A" =>
        \A ch \in Channels : \A k \in 1 .. Len(events_by_channel[ch]) :
            LET e == events_by_channel[ch][k]
            IN  /\ e.str = (IF e.w[32] = 1 THEN STR_START ELSE STR_END)
                /\ IntBits(ch, 5) = SubSeq(e.w, 27, 31)
                /\ BvVal(SubSeq(e.w, 1, 26)) = e.ts

\* C15: a buffer of L bytes gives exactly L div 4 words, word k made of bytes
\* 4k .. 4k+3 with the least significant byte first; the last L mod 4 bytes
\* give no word.
C15_TrailingPartialWord ==
    epc \in {"decode", "plot", "parse", "done"} =>
        /\ Len(words) = Len(out) \div 4
        /\ \A k \in 1 .. Len(words) :
              /\ Len(words[k]) = 32
              /\ \A j \in 0 .. 3 :
                    BvVal(SubSeq(words[k], 8 * j + 1, 8 * j + 8)) = out[4 * (k - 1) + j + 1]

C15_Witness ==
    /\ epc = "done"
    /\ Len(out) = 10
    /\ Len(words) = 2
    /\ Len(events_by_channel[ChanB]) = 2

-----------------------------------------------------------------------------
(* Claims on the pure helpers *)
\* C16: the result of ensure_multiple_of_16(d) has the smallest length that
\* is a multiple of 16 and not less than len(d), starts with d, and is zero
\* after it; a d whose length is a multiple of 16 is returned as it is, so
\* padding the result again changes nothing.
C16_ChunkPadding ==
    fpc \in {"padded", "padded2"} =>
        /\ Len(fout) % 16 = 0
        /\ Len(fin) <= Len(fout)
        /\ Len(fout) < Len(fin) + 16
        /\ SubSeq(fout, 1, Len(fin)) = fin
        /\ \A i \in (Len(fin) + 1) .. Len(fout) : fout[i] = 0
        /\ Len(fin) % 16 = 0 => fout = fin
        /\ fpc = "padded2" => fout = fin

C16_Witness ==
    /\ fpc = "padded2"
    /\ Len(fout) = 48
    /\ fout[33] # 0
    /\ fout[34] = 0

-----------------------------------------------------------------------------
(* Claims on the chunk format *)
\* C17: every chunk the encoder appends has NUM_CHANNELS * 128 words, 16384
\* bytes, whatever num_chunks, samples_per_channel and the chunk index are,
\* and bits 31:22 of every word are zero.
C17_FixedChunkSize ==
    [][ChunkAppended =>
        LET chunk == chunks'[Len(chunks')]
        IN  /\ Len(chunk) = CHUNK_BYTES
            /\ CHUNK_BYTES = 16384
            /\ \A w \in WordPositions :
                  /\ chunk[4 * w + 4] = 0
                  /\ chunk[4 * w + 3] < 64]_vars

C17_Witness ==
    /\ samples_per_channel = 1
    /\ Len(chunks) = 2
    /\ Len(chunks[2]) = 16384
    /\ chunks[2][4 * 4095 + 3] = 31
    /\ chunks[2][4 * 4095 + 2] = 128

\* C18: the stored code is between 0 and 65535; round(voltage / 0.195) + 32768
\* is stored as 0 when it is below 0, as 65535 when it is above 65535, and
\* unchanged otherwise.
C18_Clamping ==
    fpc = "quantized" =>
        LET q == RoundDiv(fin, 195) + 32768
        IN  /\ 0 <= fout /\ fout <= 65535
            /\ q < 0 => fout = 0
            /\ q > 65535 => fout = 65535
            /\ (0 <= q /\ q <= 65535) => fout = q

C18_Witness ==
    /\ fpc = "quantized"
    /\ fin = 6389663
    /\ fout = 65535

-----------------------------------------------------------------------------
(* Claims on the aggregation *)
\* the loop of lines 81-99 over all lines, from state st
RECURSIVE ParseLines(_, _)
ParseLines(st, ls) ==
    IF ls = << >> THEN st ELSE ParseLines(ParseStep(st, Head(ls)), Tail(ls))

\* an interval list as the events of channel ch: a start and an end for a
\* closed pair, a start alone for the open entry
RECURSIVE EventsOf(_, _)
EventsOf(ch, ivs) ==
    IF ivs = << >> THEN << >>
    ELSE LET iv == Head(ivs)
             start == DecodeEvent(BvFromBytes(DeviceWord(1, ch, iv[1])))
         IN  (IF iv[2] = None THEN <<start>>
              ELSE <<start, DecodeEvent(BvFromBytes(DeviceWord(2, ch, iv[2])))>>)
                 \o EventsOf(ch, Tail(ivs))

Reaggregate(ch, ivs) ==
    ParseResult(ParseLines([start_time |-> None, seizures |-> << >>],
                           ChannelFile(ch, EventsOf(ch, ivs))))

\* C20: the interval list parse_seizure_events returns for a channel, written
\* back as events of that channel and aggregated again, gives the same list.
C20_AggregatorIdempotence ==
    [][(epc = "parse" /\ epc' = "plot") =>
          Reaggregate(pch, intervals'[pch]) = intervals'[pch]]_vars

C20_Witness ==
    /\ epc = "done"
    /\ intervals[ChanA] = << <<0, 108>>, <<1444, None>> >>
    /\ Reaggregate(ChanA, intervals[ChanA]) = << <<0, 108>>, <<1444, None>> >>

-----------------------------------------------------------------------------
(* Claims on the per-channel grouping *)
\* the fields of the k-th whole word of the output buffer, read from its
\* bytes: bits 31:30, bits 29:25, bits 24:0
WordCount == Len(out) \div 4
CodeBits(k) == out[4 * k] \div 64
ChannelBits(k) == (out[4 * k] \div 2) % 32
TimeBits(k) ==
    out[4 * k - 3] + 256 * out[4 * k - 2] + 65536 * out[4 * k - 1]
        + 16777216 * (out[4 * k] % 2)

\* the positions, in stream order, of the words of channel ch whose event
\* code is in codes
PositionsOf(ch, codes) ==
    SelectSeq([k \in 1 .. WordCount |-> k],
              LAMBDA k : ChannelBits(k) = ch /\ CodeBits(k) \in codes)

\* the tuples line 317 appends for the words at positions ps
EventsAt(ps) ==
    [n \in 1 .. Len(ps) |->
        [code |-> CodeBits(ps[n]),
         str |-> IF CodeBits(ps[n]) = 1 THEN STR_START
                 ELSE IF CodeBits(ps[n]) = 2 THEN STR_END ELSE STR_IDLE,
         ts |-> TimeBits(ps[n]),
         w |-> BvFromBytes(SubSeq(out, 4 * ps[n] - 3, 4 * ps[n]))]]

\* the intervals of channel ch computed from its own start and end words alone
OwnIntervals(ch) ==
    ParseResult(ParseLines([start_time |-> None, seizures |-> << >>],
                           ChannelFile(ch, EventsAt(PositionsOf(ch, {1, 2})))))

(* C21: aggregation is per channel. When the loop over the words is done the
   event list of every channel holds, in stream order, exactly the words
   whose bits 29:25 name that channel; and the interval list returned for a
   channel is the one computed from that channel's start and end words
   alone, so words of other channels and idle words (codes 0 and 3) do not
   open, close or change an interval of it. *)
C21_PerChannel ==
    /\ [][(epc = "decode" /\ epc' = "plot") =>
            \A ch \in Channels :
                events_by_channel[ch] = EventsAt(PositionsOf(ch, 0 .. 3))]_vars
    /\ [][(epc \in {"plot", "parse"} /\ pch' = pch + 1) =>
            intervals'[pch] = OwnIntervals(pch)]_vars

\* channel 0 got the interval (0, 108) from a stream in which a start of
\* channel 31 came between its start and its end
C21_Witness ==
    /\ epc = "done"
    /\ out = DeviceWord(1, ChanA, 0) \o DeviceWord(1, ChanB, 108) \o DeviceWord(2, ChanA, 108)
    /\ intervals[ChanA] = << <<0, 108>> >>
    /\ intervals[ChanB] = << <<108, None>> >>

-----------------------------------------------------------------------------
(* Claims on the synthesizer's clock and reset *)
\* one step of 1000 / sample_rate ms, in microseconds
StepOf(self) == 1000000 \div self.sample_rate

(* C22: uniform time advance. Every next_sample call adds exactly one step of
   1000 / sample_rate ms to t_ms, whatever the spike and seizure state and
   whether seizures are enabled; k calls in a row add k steps, so t_ms is k
   steps after k calls from construction or from a reset; reset sets t_ms to
   0 and the other methods leave it alone. *)
C22_UniformTimeAdvance ==
    /\ [][NextSample => source'.t_ms = source.t_ms + StepOf(source)]_vars
    /\ [][Reset => source'.t_ms = 0]_vars
    /\ [](calls = 0 => source.t_ms = 0)
    /\ [](\A k \in 0 .. MaxCalls :
            /\ Samples(source, rng, k).self.t_ms = source.t_ms + k * StepOf(source)
            /\ Samples(reset(source), rng, k).self.t_ms = k * StepOf(source))
    /\ [](/\ \A unit \in 1 .. source.n_units :
                _next_spike_voltage(source, unit).self.t_ms = source.t_ms
          /\ _seizure_voltage(source, rng).self.t_ms = source.t_ms)

\* three next_sample calls after a reset, seizures disabled, a unit firing
C22_Witness ==
    /\ calls = 5
    /\ ~source.enable_seizures
    /\ source.sample_rate = 1000
    /\ source.t_ms = 3000
    /\ \E unit \in 1 .. source.n_units : source.firing[unit]

\* the fields reset may write, and the ones it must keep
Dynamic == {"t_ms", "seizure_start_time_ms", "firing", "spike_time_ms"}
IsInitialDynamic(self) ==
    /\ self.t_ms = 0
    /\ self.seizure_start_time_ms = None
    /\ \A unit \in 1 .. self.n_units :
          ~self.firing[unit] /\ self.spike_time_ms[unit] = 0
SameParameters(a, b) ==
    /\ DOMAIN a = DOMAIN b
    /\ \A f \in (DOMAIN a) \ Dynamic : a[f] = b[f]

(* C23: reset restores the initial dynamic state. From any state reached by
   next_sample calls, reset sets t_ms to 0, clears every unit's firing flag
   and spike_time_ms and the active seizure, and leaves the per-unit
   amplitude, duration and rate and every other field unchanged; a second
   reset changes nothing. *)
C23_Reset ==
    /\ [][Reset => (IsInitialDynamic(source') /\ SameParameters(source', source))]_vars
    /\ [](/\ IsInitialDynamic(reset(source))
          /\ SameParameters(reset(source), source)
          /\ reset(reset(source)) = reset(source))

\* the object just after a reset that followed at least one next_sample call
\* of a seizure-enabled source
C23_Witness ==
    /\ calls >= 2
    /\ voltage # 0
    /\ source.enable_seizures
    /\ IsInitialDynamic(source)

-----------------------------------------------------------------------------
(* Claims on the encoder's use of the sample buffer *)
\* the samples generated for channel ch: flat indices ch * samples_per_channel
\* up to (ch + 1) * samples_per_channel - 1 of the buffer
OwnSamples(ch) ==
    { all_data_16[idx + 1] :
        idx \in (ch * samples_per_channel) .. ((ch + 1) * samples_per_channel - 1) }

(* C24: no cross-channel sample leakage in encode. In every chunk, also when
   num_chunks * 128 > samples_per_channel, the word tagged with channel ch
   carries a sample of channel ch's own region of the buffer or the mid-scale
   pad value 32768. *)
C24_NoLeakage ==
    [][ChunkAppended =>
        LET chunk == chunks'[Len(chunks')]
        IN  \A w \in WordPositions :
                LET ch == chunk[4 * w + 3]
                    code16 == chunk[4 * w + 1] + 256 * chunk[4 * w + 2]
                IN  code16 = MID_SCALE \/ code16 \in OwnSamples(ch)]_vars

-----------------------------------------------------------------------------
(* Claims on the spike lifecycle *)
Units == 1 .. 2

\* the phases of a unit: idle, active (phase time below the duration),
\* refractory (below duration + 5 ms), and the refractory period over
Idle(self, unit) == ~self.firing[unit]
Active(self, unit) ==
    self.firing[unit] /\ self.spike_time_ms[unit] < self.spike_duration_ms[unit]
Refractory(self, unit) ==
    /\ self.firing[unit]
    /\ self.spike_time_ms[unit] >= self.spike_duration_ms[unit]
    /\ self.spike_time_ms[unit] < self.spike_duration_ms[unit] + 5000
RefractoryOver(self, unit) ==
    /\ self.firing[unit]
    /\ self.spike_time_ms[unit] >= self.spike_duration_ms[unit] + 5000

\* the number of next_sample calls after which a firing unit is idle
CallsToIdle(self, unit) ==
    IF RefractoryOver(self, unit) THEN 1
    ELSE (self.spike_duration_ms[unit] + 5000 - self.spike_time_ms[unit] + StepOf(self) - 1)
             \div StepOf(self) + 1

(* C25: spike lifecycle ordering. A unit goes idle -> active -> refractory ->
   idle. An idle unit has phase time 0 and a next_sample call leaves it idle
   or starts it at phase time 0; while its phase time is below duration + 5 ms
   a firing unit stays firing and its phase time goes on by one step, so no
   new spike starts in its active or refractory phase; it contributes a
   nonzero voltage only while its phase time is below its duration; it is
   idle again only once its phase time has reached duration + 5 ms, on the
   next call; and a firing unit is idle again after finitely many
   next_sample calls. *)
C25_SpikeLifecycle ==
    /\ [][NextSample =>
            \A unit \in Units :
                /\ Idle(source, unit) =>
                      /\ source.spike_time_ms[unit] = 0
                      /\ source'.spike_time_ms[unit] = 0
                /\ (Active(source, unit) \/ Refractory(source, unit)) =>
                      /\ source'.firing[unit]
                      /\ source'.spike_time_ms[unit] =
                            source.spike_time_ms[unit] + StepOf(source)
                /\ Active(source, unit) => ~Idle(source', unit)
                /\ Refractory(source, unit) => ~Active(source', unit)
                /\ RefractoryOver(source, unit) =>
                      Idle(source', unit) /\ source'.spike_time_ms[unit] = 0
                /\ _next_spike_voltage(source, unit).result # 0 => Active(source, unit)]_vars
    /\ [](\A unit \in Units :
            source.firing[unit] =>
                /\ \A k \in 0 .. (CallsToIdle(source, unit) - 1) :
                      Samples(source, rng, k).self.firing[unit]
                /\ Idle(Samples(source, rng, CallsToIdle(source, unit)).self, unit))
    /\ \A unit \in Units :
          (source.firing[unit] /\ calls + CallsToIdle(source, unit) <= MaxCalls)
              ~> Idle(source, unit)

\* at 1000 Hz a unit that started firing in the first call has been through
\* its active call and five refractory calls: its refractory period is over
C25_Witness ==
    /\ calls = 7
    /\ source.sample_rate = 1000
    /\ source.t_ms = 7000
    /\ \E unit \in Units :
          RefractoryOver(source, unit) /\ source.spike_time_ms[unit] = 6000

-----------------------------------------------------------------------------
(* Claims on the width of the energy operator's arithmetic *)
FitsInt32(a) == a.hi \in -32768 .. 32767

(* C26: NEO arithmetic stays within signed 32 bits. For 16-bit codes the
   centered values x = code - 32768 lie in -32768 .. 32767, and for every
   inner index the exact values of x[i]^2, x[i-1] * x[i+1] and their
   difference lie in -2^31 .. 2^31 - 1, so the int32 computation does not
   wrap: the value compute_neo returns is the absolute value of the exact
   difference. *)
C26_NeoWithinInt32 ==
    fpc = "neo_done" =>
        LET n == Len(fin)
            x == [j \in 1 .. n |-> fin[j] - 32768]
        IN  /\ \A j \in 1 .. n :
                  fin[j] \in 0 .. 65535 /\ x[j] \in -32768 .. 32767
            /\ \A i \in 2 .. (n - 1) :
                  LET sq == WideMul(x[i], x[i])
                      nm == WideMul(x[i - 1], x[i + 1])
                      d == WideSub(sq, nm)
                  IN  /\ FitsInt32(sq) /\ Narrow(sq) = x[i] * x[i]
                      /\ FitsInt32(nm) /\ Narrow(nm) = x[i - 1] * x[i + 1]
                      /\ FitsInt32(d) /\ Narrow(d) = Narrow(sq) - Narrow(nm)
                      /\ fout.neo[i] = Abs(Narrow(d))

\* codes 0, 0, 65535: x = -32768, -32768, 32767, the largest difference,
\* 2^30 + 32768 * 32767
C26_Witness ==
    /\ fpc = "neo_done"
    /\ fin = <<0, 0, 65535>>
    /\ fout.neo[2] = 2147450880

=============================================================================
